---------------------------- MODULE Spec2Model ----------------------------
(***************************************************************************)
(* Sony WH-1000XM6 web controller: the frame codec (protocol/codec.py) and *)
(* the RFCOMM session (bluetooth/connector.py), modelled as state machines.*)
(*                                                                         *)
(* Bytes are integers 0..255.  Byte strings are TLA+ sequences, so an      *)
(* index i of the Python code is index i+1 here; find() returns 0 where    *)
(* Python returns -1.                                                      *)
(***************************************************************************)
EXTENDS Integers, Sequences, FiniteSets, TLC

VARIABLES
    \* ---- codec harness (SpecCodec) ----
    t_in,       \* the inputs drawn: [data_type, seq, payload]
    t_case,     \* which function was applied to them
    t_buf,      \* the byte string handed to the function under test
    t_aux,      \* the second input of the case (tail, declared length, ...)
    t_msg,      \* the Message returned, or None
    t_rem,      \* the byte string returned (remainder, unescaped bytes)
    t_pc,       \* "ready" | "extracting" | "done"
    ex_buf,     \* argument of the running extract_message invocation
    ex_depth,   \* number of recursive retries made so far
    \* ---- SonyBluetoothConnector (Spec) ----
    seq_number,
    device,             \* TRUE: an IOBluetoothDevice, FALSE: None
    channel,            \* TRUE: an IOBluetoothRFCOMMChannel, FALSE: None
    delegate,           \* TRUE: an RFCOMMDelegate, FALSE: None
    recv_buffer,        \* _recv_buffer
    pending_responses,  \* _pending_responses
    connected,          \* _connected
    cache,              \* the cached state: battery_level, ..., speak_to_chat_enabled
    \* ---- the transport and the main thread ----
    link,               \* the RFCOMM channel of the OS: "none" | "opening" | "open"
    tx,                 \* the frames the last step wrote with writeSync_length_
    ops,                \* the calls the last step made on the device and channel
    events,             \* what the last data callback did with each message, in order
    last_op,            \* the operation or callback the last step belongs to
    pc,                 \* where the main thread is
    call,               \* the locals of the running send_command
    ret,                \* what the last send_command returned
    connect_ret,        \* what the last connect returned
    \* ---- history ----
    g_payload,          \* the payload of the last send_command begun
    g_arrived,          \* non-ACK messages extracted since it began, while it waited
    g_closed,           \* _on_disconnected ran while it waited
    g_prev,             \* how the send_command before the last one ended
    g_hs,               \* the payloads the last connect handed to writeSync_length_
    n_data, n_calls, n_connects,
    lim,                \* how many data callbacks, send_command calls and connection
                        \* attempts the behaviour explores
    \* ---- app.py: the queue of operations and its threads ----
    bt_queue,           \* the callables put and not yet taken, oldest first
    main_pc,            \* the main thread: "pump" | "drain" | "in_fn" | "off"
    executing,          \* the queued operations that are running
    http,               \* per Flask thread: 0, or the operation whose result it awaits
    g_submitted,        \* the operations in the order they were put
    g_started,          \* the operations in the order they began to run
    \* ---- app.py: a Flask thread in api_status ----
    rd_pc,              \* api_status: "off" | "reading" | "done"
    snap,               \* the values it has read so far
    wr_pc,              \* _process_notification: "idle" | "charging" (level assigned)
    wr_msg,             \* the message _process_notification is handling
    g_held,             \* the states the session held between two messages
    n_notes             \* the messages processed

codec_vars == <<t_in, t_case, t_buf, t_aux, t_msg, t_rem, t_pc, ex_buf, ex_depth>>

session_vars == <<seq_number, device, channel, delegate, recv_buffer,
                  pending_responses, connected, cache>>

env_vars == <<link, tx, ops, events, last_op, pc, call, ret, connect_ret>>

hist_vars == <<g_payload, g_arrived, g_closed, g_prev, g_hs, n_data, n_calls, n_connects,
               lim>>

queue_vars == <<bt_queue, main_pc, executing, http, g_submitted, g_started>>

status_vars == <<rd_pc, snap, wr_pc, wr_msg, g_held, n_notes>>

app_vars == <<queue_vars, status_vars>>

vars == <<codec_vars, session_vars, env_vars, hist_vars, app_vars>>

---------------------------------------------------------------------------
(* protocol/constants.py *)

START_MARKER == 62
END_MARKER == 60
ESCAPE_BYTE == 61

ESCAPE_MAP == (60 :> 44) @@ (61 :> 45) @@ (62 :> 46)

UNESCAPE_MAP ==
    [v \in {ESCAPE_MAP[k] : k \in DOMAIN ESCAPE_MAP} |->
        CHOOSE k \in DOMAIN ESCAPE_MAP : ESCAPE_MAP[k] = v]

DataType_DATA == 0
DataType_ACK == 1
DataType_DATA_MDR == 12

---------------------------------------------------------------------------
(* Python helpers *)

Min(a, b) == IF a < b THEN a ELSE b

\* data[lo:] / data[lo:hi] with 1-based inclusive bounds
Slice(data, lo, hi) == SubSeq(data, lo, Min(hi, Len(data)))

RECURSIVE SeqSum(_)
SeqSum(data) == IF data = <<>> THEN 0 ELSE Head(data) + SeqSum(Tail(data))

\* bytes.find(b, from): first index >= from holding b, 0 when there is none
RECURSIVE find(_, _, _)
find(buffer, b, from) ==
    IF from > Len(buffer) THEN 0
    ELSE IF buffer[from] = b THEN from
    ELSE find(buffer, b, from + 1)

\* Message | None.  None is a record of the same shape that no frame decodes to.
None == [data_type |-> -1, seq |-> -1, payload |-> <<>>]

Message(data_type, seq, payload) ==
    [data_type |-> data_type, seq |-> seq, payload |-> payload]

---------------------------------------------------------------------------
(* protocol/codec.py *)

RECURSIVE escape_markers_only(_)
escape_markers_only(data) ==
    IF data = <<>> THEN <<>>
    ELSE LET b == Head(data)
         IN  (IF b \in {START_MARKER, END_MARKER}
                THEN <<ESCAPE_BYTE, ESCAPE_MAP[b]>>
                ELSE <<b>>) \o escape_markers_only(Tail(data))

RECURSIVE escape(_)
escape(data) ==
    IF data = <<>> THEN <<>>
    ELSE LET b == Head(data)
         IN  (IF b \in DOMAIN ESCAPE_MAP
                THEN <<ESCAPE_BYTE, ESCAPE_MAP[b]>>
                ELSE <<b>>) \o escape(Tail(data))

\* the while loop of unescape, from index i on
RECURSIVE unescape_from(_, _)
unescape_from(data, i) ==
    IF i > Len(data) THEN <<>>
    ELSE IF /\ data[i] = ESCAPE_BYTE
            /\ i + 1 <= Len(data)
            /\ data[i + 1] \in DOMAIN UNESCAPE_MAP
         THEN <<UNESCAPE_MAP[data[i + 1]]>> \o unescape_from(data, i + 2)
         ELSE <<data[i]>> \o unescape_from(data, i + 1)

unescape(data) == unescape_from(data, 1)

checksum_skip_first(data) == SeqSum(Tail(data)) % 256

checksum(data) == SeqSum(data) % 256

length_field(length) ==
    << (length \div 16777216) % 256,
       (length \div 65536) % 256,
       (length \div 256) % 256,
       length % 256 >>

pack_no_escape(data_type, seq, payload) ==
    LET inner == <<data_type, seq>> \o length_field(Len(payload)) \o payload
    IN  <<START_MARKER>> \o inner \o <<checksum(inner)>> \o <<END_MARKER>>

\* a frame whose checksum byte is appended after escaping
pack_raw_checksum(data_type, seq, payload) ==
    LET inner == <<data_type, seq>> \o length_field(Len(payload)) \o payload
    IN  <<START_MARKER>> \o escape(inner) \o <<checksum(inner)>> \o <<END_MARKER>>

pack(data_type, seq, payload) ==
    LET header == <<data_type, seq>> \o length_field(Len(payload))
        inner == header \o payload
        chk == checksum(inner)
        inner_with_chk == inner \o <<chk>>
        escaped == escape(inner_with_chk)
    IN  <<START_MARKER>> \o escaped \o <<END_MARKER>>

unpack(raw) ==
    IF Len(raw) < 2 \/ raw[1] # START_MARKER \/ raw[Len(raw)] # END_MARKER
    THEN None
    ELSE
      LET inner == unescape(SubSeq(raw, 2, Len(raw) - 1))
      IN  IF Len(inner) < 7 THEN None
          ELSE
            LET expected_chk == inner[Len(inner)]
                actual_chk == checksum(SubSeq(inner, 1, Len(inner) - 1))
            IN  IF expected_chk # actual_chk THEN None
                ELSE
                  LET length == inner[3] * 16777216 + inner[4] * 65536
                                  + inner[5] * 256 + inner[6]
                      \* inner[6:6 + length]: the slice is cut at the end of
                      \* inner, whose last byte is the checksum
                      payload == Slice(inner, 7, 6 + length)
                  IN  IF Len(payload) # length THEN None
                      ELSE Message(inner[1], inner[2], payload)


\* buffer[start:], what is kept while the frame's end has not arrived
keep_whole(buffer, start) == buffer

keep_nothing(buffer, start) == <<>>

keep_from(buffer, start) == SubSeq(buffer, start, Len(buffer))

\* buffer[end + 1:], what follows the frame
remaining_from_end(buffer, end) == SubSeq(buffer, end, Len(buffer))

remaining_after(buffer, end) == SubSeq(buffer, end + 1, Len(buffer))

\* buffer[start + 1:], the buffer of the retry (start is the marker's index)
retry_buffer_same(buffer, start) == SubSeq(buffer, start, Len(buffer))

retry_buffer_skip2(buffer, start) == SubSeq(buffer, start + 2, Len(buffer))

retry_buffer(buffer, start) == SubSeq(buffer, start + 1, Len(buffer))

\* One invocation of extract_message, up to its return or its recursive call:
\* [retry |-> the invocation ends in the recursive call, on buffer next;
\*  msg, rem |-> what it returns otherwise]
extract_step(buffer) ==
    LET start == find(buffer, START_MARKER, 1)
    IN  IF start = 0
        THEN [retry |-> FALSE, msg |-> None, rem |-> buffer, next |-> <<>>]
        ELSE
          LET end == find(buffer, END_MARKER, start + 1)
          IN  IF end = 0
              THEN [retry |-> FALSE, msg |-> None,
                    rem |-> keep_from(buffer, start), next |-> <<>>]
              ELSE
                LET raw == SubSeq(buffer, start, end)
                    remaining == remaining_after(buffer, end)
                    msg == unpack(raw)
                IN  IF msg = None
                    THEN [retry |-> TRUE, msg |-> None, rem |-> <<>>,
                          next |-> retry_buffer(buffer, start)]
                    ELSE [retry |-> FALSE, msg |-> msg, rem |-> remaining,
                          next |-> <<>>]

\* extract_message(buffer) -> (msg, remaining)
RECURSIVE extract_message(_)
extract_message(buffer) ==
    LET r == extract_step(buffer)
    IN  IF r.retry THEN extract_message(r.next)
        ELSE [msg |-> r.msg, rem |-> r.rem]

---------------------------------------------------------------------------
(* Codec harness: the inputs are drawn in CodecInit, each action applies    *)
(* one codec function to them and records what it returned.                 *)

MaxPayloadLen == 2
MaxTailLen == 2

\* 0x00, ',' (a substitute), '<', '=', '>'
PayloadBytes == {0, 44, 60, 61, 62}
TailBytes == {0, 60, 62}
FlipBytes == {0, 1, 44, 45, 60, 61, 62}
CorruptBytes == {0, 62}
\* (data_type, seq) pairs: the XM6 data type, ACK, and reserved bytes in the header
HeaderSample == {<<12, 0>>, <<12, 1>>, <<1, 0>>, <<62, 61>>, <<0, 60>>}

SeqsUpTo(S, n) == UNION {[1..k -> S] : k \in 0..n}

Payloads == SeqsUpTo(PayloadBytes, MaxPayloadLen)
Tails == SeqsUpTo(TailBytes, MaxTailLen)

NoAux == [tail |-> <<>>, idx |-> 0, byte |-> 0, declared |-> 0, kind |-> "none"]

Frame == pack(t_in.data_type, t_in.seq, t_in.payload)
\* the well-formed frame that follows the corrupted one
NextSeq == (t_in.seq + 1) % 256
Frame2 == pack(t_in.data_type, NextSeq, t_in.payload)

Interior(raw) == SubSeq(raw, 2, Len(raw) - 1)

ReplaceAt(s, i, b) == [s EXCEPT ![i] = b]
InsertAt(s, i, b) == SubSeq(s, 1, i - 1) \o <<b>> \o SubSeq(s, i, Len(s))
DeleteAt(s, i) == SubSeq(s, 1, i - 1) \o SubSeq(s, i + 1, Len(s))

\* a start-marker..end-marker span, with no end marker before its last byte
IsSpan(c) ==
    /\ Len(c) >= 2
    /\ c[1] = START_MARKER
    /\ find(c, END_MARKER, 2) = Len(c)

HasStartNoEnd(b) ==
    LET start == find(b, START_MARKER, 1)
    IN  start # 0 /\ find(b, END_MARKER, start + 1) = 0

\* the indices at which unescape consumes an escape pair
RECURSIVE EscapePairsFrom(_, _)
EscapePairsFrom(data, i) ==
    IF i > Len(data) THEN {}
    ELSE IF /\ data[i] = ESCAPE_BYTE
            /\ i + 1 <= Len(data)
            /\ data[i + 1] \in DOMAIN UNESCAPE_MAP
         THEN {i} \cup EscapePairsFrom(data, i + 2)
         ELSE EscapePairsFrom(data, i + 1)

EscapePairs(data) == EscapePairsFrom(data, 1)

CodecInputs ==
    /\ t_in \in {Message(h[1], h[2], p) : h \in HeaderSample, p \in Payloads}
    /\ t_case = "none"
    /\ t_buf = <<>>
    /\ t_aux = NoAux
    /\ t_msg = None
    /\ t_rem = <<>>
    /\ t_pc = "ready"
    /\ ex_buf = <<>>
    /\ ex_depth = 0

Returned(case, buf, aux, msg, rem) ==
    /\ t_case' = case
    /\ t_buf' = buf
    /\ t_aux' = aux
    /\ t_msg' = msg
    /\ t_rem' = rem
    /\ t_pc' = "done"
    /\ UNCHANGED <<t_in, ex_buf, ex_depth>>

Started(case, buf, aux) ==
    /\ t_case' = case
    /\ t_buf' = buf
    /\ t_aux' = aux
    /\ t_pc' = "extracting"
    /\ ex_buf' = buf
    /\ ex_depth' = 0
    /\ UNCHANGED <<t_in, t_msg, t_rem>>

\* unpack(pack(data_type, seq, payload))
ApplyRoundTrip ==
    /\ t_pc = "ready"
    /\ Returned("roundtrip", Frame, NoAux, unpack(Frame), <<>>)

\* unescape(escape(payload))
ApplyEscape ==
    /\ t_pc = "ready"
    /\ LET e == escape(t_in.payload)
       IN  Returned("escape", e, NoAux, None, unescape(e))

\* unpack of a frame with a valid checksum that declares length d
ApplyLength ==
    /\ t_pc = "ready"
    /\ \E d \in 0..(MaxPayloadLen + 1) :
         LET inner == <<t_in.data_type, t_in.seq>> \o length_field(d) \o t_in.payload
             raw == <<START_MARKER>> \o escape(inner \o <<checksum(inner)>>)
                      \o <<END_MARKER>>
         IN  Returned("length", raw, [NoAux EXCEPT !.declared = d], unpack(raw), <<>>)

\* unpack of a packed frame with one interior byte changed
ApplyFlip ==
    /\ t_pc = "ready"
    /\ \E i \in 2..(Len(Frame) - 1) : \E b \in FlipBytes \ {Frame[i]} :
         LET raw == ReplaceAt(Frame, i, b)
         IN  Returned("flip", raw, [NoAux EXCEPT !.idx = i, !.byte = b],
                      unpack(raw), <<>>)

\* extract_message(frame ++ tail)
BeginTail ==
    /\ t_pc = "ready"
    /\ \E tl \in Tails :
         Started("tail", Frame \o tl, [NoAux EXCEPT !.tail = tl])

\* extract_message of noise followed by the first n bytes of a frame
BeginPartial ==
    /\ t_pc = "ready"
    /\ \E g \in Tails : \E n \in {1, 3, Len(Frame) - 1} :
         LET buf == g \o SubSeq(Frame, 1, n)
         IN  /\ HasStartNoEnd(buf)
             /\ Started("partial", buf, [NoAux EXCEPT !.tail = g, !.idx = n])

\* the frame damaged in transit: one byte changed, inserted or lost
Corrupted ==
    {[kind |-> "replace", idx |-> i, byte |-> b, raw |-> ReplaceAt(Frame, i, b)] :
        i \in 1..Len(Frame), b \in CorruptBytes}
    \cup
    {[kind |-> "insert", idx |-> i, byte |-> b, raw |-> InsertAt(Frame, i, b)] :
        i \in 1..Len(Frame), b \in CorruptBytes}
    \cup
    {[kind |-> "delete", idx |-> i, byte |-> 0, raw |-> DeleteAt(Frame, i)] :
        i \in 1..Len(Frame)}

\* extract_message(corrupted frame ++ well-formed frame)
BeginResync ==
    /\ t_pc = "ready"
    /\ \E c \in Corrupted :
         /\ IsSpan(c.raw)
         /\ unpack(c.raw) = None
         /\ Started("resync", c.raw \o Frame2,
                    [NoAux EXCEPT !.tail = c.raw, !.idx = c.idx, !.byte = c.byte,
                                  !.kind = c.kind])

\* one invocation of extract_message on ex_buf
ExtractCall ==
    /\ t_pc = "extracting"
    /\ LET r == extract_step(ex_buf)
       IN  IF r.retry
           THEN /\ ex_buf' = r.next
                /\ ex_depth' = ex_depth + 1
                /\ UNCHANGED <<t_msg, t_rem, t_pc>>
           ELSE /\ t_msg' = r.msg
                /\ t_rem' = r.rem
                /\ t_pc' = "done"
                /\ UNCHANGED <<ex_buf, ex_depth>>
    /\ UNCHANGED <<t_in, t_case, t_buf, t_aux>>

CodecStep ==
    \/ ApplyRoundTrip
    \/ ApplyEscape
    \/ ApplyLength
    \/ ApplyFlip
    \/ BeginTail
    \/ BeginPartial
    \/ BeginResync
    \/ ExtractCall

---------------------------------------------------------------------------
(* protocol/commands.py *)

AncMode_OFF == 0
AncMode_NOISE_CANCELLING == 1
AncMode_AMBIENT_SOUND == 2

Max(a, b) == IF a >= b THEN a ELSE b

Bit(b) == IF b THEN 1 ELSE 0

build_nc_asm_unclamped(nc_on, asm_on, asm_level, focus_voice) ==
    <<104, 25, 1, Bit(nc_on \/ asm_on), Bit(asm_on), Bit(nc_on), asm_level,
      Bit(focus_voice), 0>>

\* build_nc_asm_xm6(nc_on, asm_on, asm_level, focus_voice)
build_nc_asm_xm6(nc_on, asm_on, asm_level, focus_voice) ==
    LET enable == IF nc_on \/ asm_on THEN 1 ELSE 0
        level == Max(0, Min(20, asm_level))
    IN  <<104, 25, 1, enable, Bit(asm_on), Bit(nc_on), level, Bit(focus_voice), 0>>

\* build_anc_command_xm6(mode, asm_level, focus_voice); asm_level of
\* build_nc_asm_xm6 defaults to 0x14
build_anc_command_xm6(mode, asm_level, focus_voice) ==
    IF mode = AncMode_NOISE_CANCELLING
    THEN build_nc_asm_xm6(TRUE, FALSE, 20, FALSE)
    ELSE IF mode = AncMode_AMBIENT_SOUND
    THEN build_nc_asm_xm6(FALSE, TRUE, asm_level, focus_voice)
    ELSE build_nc_asm_xm6(FALSE, FALSE, 20, FALSE)

---------------------------------------------------------------------------
(* bluetooth/connector.py *)

\* _build_ack_packet(seq): a raw ACK frame, built without escaping
_build_ack_packet(seq) ==
    LET inner == <<DataType_ACK, seq, 0, 0, 0, 0>>
        chk == SeqSum(inner) % 256
    IN  <<62>> \o inner \o <<chk>> \o <<60>>

\* SonyBluetoothConnector.__init__: the cached state
InitCache ==
    [battery_level |-> -1, battery_charging |-> FALSE, anc_mode |-> "unknown",
     volume_level |-> -1, dsee_enabled |-> FALSE, speak_to_chat_enabled |-> FALSE]

notification_ignored(c, msg) == c

anc_mode_enable_only(enable, asm_on) == IF enable THEN "nc" ELSE "off"

\* cmd in (CommandType.BATTERY_RET,) and len(msg.payload) >= 4
IsBatteryRet(msg) == Len(msg.payload) >= 4 /\ msg.payload[1] = 35

\* the ANC mode _process_notification infers from the two flags
anc_mode_of(enable, asm_on) ==
    IF enable /\ ~asm_on THEN "nc"
    ELSE IF enable /\ asm_on THEN "ambient"
    ELSE "off"

\* _process_notification(msg), as the cached state it leaves
_process_notification(c, msg) ==
    IF msg.payload = <<>> THEN c
    ELSE
      LET p == msg.payload
          cmd == p[1]
      IN  IF cmd = 35
          THEN IF Len(p) >= 4
               THEN [c EXCEPT !.battery_level = p[3], !.battery_charging = (p[4] # 0)]
               ELSE c
          ELSE IF cmd \in {103, 105}
          THEN IF Len(p) >= 5
               THEN LET enable == p[4] # 0
                        asm_on == p[5] # 0
                    IN  [c EXCEPT !.anc_mode = anc_mode_of(enable, asm_on)]
               ELSE c
          ELSE IF cmd \in {167, 169}
          THEN IF Len(p) >= 3 THEN [c EXCEPT !.volume_level = p[3]] ELSE c
          ELSE IF cmd \in {231, 233}
          THEN IF Len(p) >= 3 THEN [c EXCEPT !.dsee_enabled = (p[3] # 0)] ELSE c
          ELSE IF cmd \in {247, 249}
          THEN IF Len(p) >= 3
               THEN [c EXCEPT !.speak_to_chat_enabled = (p[3] # 0)]
               ELSE c
          ELSE c

echo_seq(seq) == seq

\* one thing _on_data_received did with an extracted message
Event(ev, msg, out) == [ev |-> ev, msg |-> msg, out |-> out]

\* next_seq = 1 - msg.seq if msg.seq <= 1 else 0
next_seq(seq) == IF seq <= 1 THEN 1 - seq ELSE 0

\* the else branch, after the ACK is written: self._process_notification(msg);
\* self._pending_responses.append(msg)
handle_data(s, msg) ==
    LET s2 == [s EXCEPT !.cache = _process_notification(s.cache, msg),
                        !.events = Append(s.events, Event("decode", msg, <<>>))]
    IN  [s2 EXCEPT !.pending = Append(s2.pending, msg),
                   !.arrived = Append(s2.arrived, msg),
                   !.events = Append(s2.events, Event("queue", msg, <<>>))]

handle_ack_toggles(s, msg) ==
    [s EXCEPT !.seq_number = next_seq(msg.seq),
              !.events = Append(s.events, Event("seq", msg, <<>>))]

handle_ack_as_data(s, msg) == handle_data(s, msg)

\* the ACK branch, after the ACK is written: self.seq_number = msg.seq
handle_ack(s, msg) ==
    [s EXCEPT !.seq_number = msg.seq,
              !.events = Append(s.events, Event("seq", msg, <<>>))]

\* The body of _on_data_received's loop for one extracted message.  s holds the
\* fields the handler reads and writes (and the history of what it extracted).
handle_message(s, msg) ==
    LET ack == _build_ack_packet(next_seq(msg.seq))
        s1 == IF s.channel
              THEN [s EXCEPT !.tx = Append(s.tx, ack),
                             !.events = Append(s.events, Event("write", msg, ack))]
              ELSE s
    IN  IF msg.data_type = DataType_ACK
        THEN handle_ack(s1, msg)
        ELSE handle_data(s1, msg)

\* a handler that takes one message per callback and leaves the rest buffered
receive_once(s) ==
    LET r == extract_message(s.buf)
        s1 == [s EXCEPT !.buf = r.rem]
    IN  IF r.msg = None THEN s1
        ELSE handle_message(s1, r.msg)

\* The while loop of _on_data_received
RECURSIVE receive_loop(_)
receive_loop(s) ==
    LET r == extract_message(s.buf)
        s1 == [s EXCEPT !.buf = r.rem]
    IN  IF r.msg = None THEN s1
        ELSE receive_loop(handle_message(s1, r.msg))

\* expected_cmds = {request_cmd, (request_cmd + 1) & 0xFF}
expected_cmds(payload) == {payload[1], (payload[1] + 1) % 256}

matches(resp, expected) == resp.payload # <<>> /\ resp.payload[1] \in expected

last_match(pending, expected) ==
    IF \E i \in 1..Len(pending) : matches(pending[i], expected)
    THEN CHOOSE i \in 1..Len(pending) :
            /\ matches(pending[i], expected)
            /\ \A j \in (i + 1)..Len(pending) : ~matches(pending[j], expected)
    ELSE 0

\* for i, resp in enumerate(self._pending_responses): the index of the first
\* response the scan accepts, 0 when it accepts none
first_match(pending, expected) ==
    IF \E i \in 1..Len(pending) : matches(pending[i], expected)
    THEN CHOOSE i \in 1..Len(pending) :
            /\ matches(pending[i], expected)
            /\ \A j \in 1..(i - 1) : ~matches(pending[j], expected)
    ELSE 0

pending_kept(pending) == pending

\* self._pending_responses.clear() at the start of send_command
pending_at_send(pending) == <<>>

---------------------------------------------------------------------------
(* The session as a state machine.  The main thread is at pc:                *)
(*   "idle"       main()'s loop, between two queued operations               *)
(*   "open_wait"  connect, pumping the run loop until the channel is open    *)
(*   "drain"      connect, pumping the run loop to drain first notifications *)
(*   "send_wait"  send_command, pumping the run loop for the response        *)
(*   "ret_init1", "ret_init2"  connect, a handshake send_command returned    *)
(* The delegate's callbacks run only while the run loop is pumped.           *)

MaxData == 2
MaxCalls == 1
MaxConnects == 1

LifeMaxData == 1
LifeMaxCalls == 1
LifeMaxConnects == 2

\* build_battery_inquiry(), build_nc_asm_get(), and a payload whose opcode is
\* the last one, so that the expected set wraps around
Commands == {<<34, 0>>, <<102, 25>>, <<255, 0>>}
Init1 == <<0, 0>>
Init2 == <<6, 0>>

BatteryRet1 == pack(DataType_DATA_MDR, 0, <<35, 0, 77, 1>>)
BatteryRet2 == pack(DataType_DATA_MDR, 1, <<35, 0, 50, 0>>)
AncRet == pack(DataType_DATA_MDR, 0, <<103, 25, 1, 1, 0>>)
DeviceAck == pack(DataType_ACK, 1, <<>>)
WrapRet == pack(DataType_DATA_MDR, 2, <<0, 0>>)

\* what one rfcommChannelData_data_length_ callback may carry
Chunks ==
    { BatteryRet2, AncRet, DeviceAck, WrapRet,
      AncRet \o BatteryRet1,
      SubSeq(BatteryRet1, 1, 5), SubSeq(BatteryRet1, 6, Len(BatteryRet1)) }

AckMaxData == 2

AckSeq2 == pack(DataType_ACK, 2, <<>>)
AckBattery == pack(DataType_ACK, 0, <<35, 0, 50, 0>>)

AckChunks == {DeviceAck, AckSeq2, AckBattery, BatteryRet2}

Pumping == pc \in {"idle", "open_wait", "drain", "send_wait"}

NoCall == [payload |-> <<>>, expected |-> {}, caller |-> "none"]
NoRet == [kind |-> "none", msg |-> None]

\* SonyBluetoothConnector(), nothing called yet
SessionFields ==
    /\ seq_number = 0
    /\ device = FALSE
    /\ channel = FALSE
    /\ delegate = FALSE
    /\ recv_buffer = <<>>
    /\ pending_responses = <<>>
    /\ connected = FALSE
    /\ cache = InitCache
    /\ link = "none"
    /\ tx = <<>>
    /\ ops = {}
    /\ events = <<>>
    /\ last_op = "none"
    /\ pc = "idle"
    /\ call = NoCall
    /\ ret = NoRet
    /\ connect_ret = "none"
    /\ g_payload = <<>>
    /\ g_arrived = <<>>
    /\ g_closed = FALSE
    /\ g_prev = "none"
    /\ g_hs = <<>>
    /\ n_data = 0
    /\ n_calls = 0
    /\ n_connects = 0

SessionInit ==
    /\ SessionFields
    /\ lim = [data |-> MaxData, calls |-> MaxCalls, connects |-> MaxConnects,
              payloads |-> Commands, chunks |-> Chunks]

\* the same session, explored over more connection attempts and less data
LifeInit ==
    /\ SessionFields
    /\ lim = [data |-> LifeMaxData, calls |-> LifeMaxCalls,
              connects |-> LifeMaxConnects, payloads |-> Commands,
              chunks |-> Chunks]

\* the same session, given every payload a caller of send_command may pass,
\* the empty one included
AnyPayloadInit ==
    /\ SessionFields
    /\ lim = [data |-> LifeMaxData, calls |-> MaxCalls, connects |-> MaxConnects,
              payloads |-> Commands \cup {<<>>}, chunks |-> Chunks]

\* the same session, receiving ACK frames of every kind: with the sequence
\* number the protocol gives them, with another one, and with a payload
AckInit ==
    /\ SessionFields
    /\ lim = [data |-> AckMaxData, calls |-> MaxCalls, connects |-> MaxConnects,
              payloads |-> Commands, chunks |-> AckChunks]

ReturnPoint(caller) ==
    IF caller = "init1" THEN "ret_init1"
    ELSE IF caller = "init2" THEN "ret_init2"
    ELSE "idle"

\* send_command returns: kind says by which path, msg is the value returned
SendReturns(caller, kind, msg) ==
    /\ ret' = [kind |-> kind, msg |-> msg]
    /\ pc' = ReturnPoint(caller)
    /\ call' = NoCall

channel_missing == ~channel

\* if not self._connected or not self.channel
not_connected == ~connected \/ ~channel

\* send_command(payload, timeout) up to its first pump of the run loop
SendCall(payload, caller, pending) ==
    /\ g_prev' = ret.kind
    /\ g_payload' = payload
    /\ g_arrived' = <<>>
    /\ g_closed' = FALSE
    /\ g_hs' = IF caller # "main" /\ ~not_connected THEN Append(g_hs, payload)
               ELSE g_hs
    /\ IF not_connected
       THEN /\ SendReturns(caller, "not_connected", None)
            /\ pending_responses' = pending
            /\ tx' = <<>>
            /\ ops' = {}
            /\ events' = <<>>
            /\ last_op' = "send_command"
       ELSE /\ pending_responses' = pending_at_send(pending)
            /\ events' = <<>>
            /\ last_op' = "send_command"
            /\ IF payload = <<>>
               THEN \* request_cmd = payload[0] raises IndexError
                    /\ SendReturns(caller, "raised", None)
                    /\ ops' = {}
                    /\ tx' = <<>>
               ELSE /\ ops' = {"writeSync"}
                    /\ \E result \in {0, 1} :
                         IF result # 0
                         THEN /\ SendReturns(caller, "write_failed", None)
                              /\ tx' = <<>>
                         ELSE /\ tx' = <<pack(DataType_DATA_MDR, seq_number, payload)>>
                              /\ call' = [payload |-> payload,
                                          expected |-> expected_cmds(payload),
                                          caller |-> caller]
                              /\ pc' = "send_wait"
                              /\ UNCHANGED ret

\* a queued connector.send_command(payload) run by main()
SendCommand ==
    /\ pc = "idle"
    /\ n_calls < lim.calls
    /\ n_calls' = n_calls + 1
    /\ \E payload \in lim.payloads : SendCall(payload, "main", pending_responses)
    /\ UNCHANGED <<seq_number, device, channel, delegate, recv_buffer, connected,
                   cache, link, connect_ret, n_data, n_connects, lim>>

\* One iteration of send_command's loop, from the return of runUntilDate_: the
\* scan of the pending responses, then the test of the deadline, which has
\* passed or not.
SendPoll ==
    /\ pc = "send_wait"
    /\ LET i == first_match(pending_responses, call.expected)
       IN  IF i # 0
           THEN /\ pending_responses' = SubSeq(pending_responses, 1, i - 1)
                        \o SubSeq(pending_responses, i + 1, Len(pending_responses))
                /\ SendReturns(call.caller, "message", pending_responses[i])
           ELSE /\ UNCHANGED pending_responses
                /\ \/ UNCHANGED <<ret, pc, call>>
                   \/ SendReturns(call.caller, "timeout", None)
    /\ tx' = <<>>
    /\ ops' = {}
    /\ events' = <<>>
    /\ last_op' = "send_command"
    /\ UNCHANGED <<seq_number, device, channel, delegate, recv_buffer, connected,
                   cache, link, connect_ret, hist_vars>>

\* what _on_data_received(data) starts from: the fields it reads, data appended
\* to the receive buffer
Received(data) ==
    [buf |-> recv_buffer \o data,
     seq_number |-> seq_number,
     channel |-> channel,
     tx |-> <<>>,
     events |-> <<>>,
     cache |-> cache,
     pending |-> pending_responses,
     arrived |-> <<>>]

\* _on_data_received(data)
_on_data_received(data) ==
    LET s == receive_loop(Received(data))
    IN  /\ recv_buffer' = s.buf
        /\ seq_number' = s.seq_number
        /\ tx' = s.tx
        /\ ops' = IF s.tx # <<>> THEN {"writeSync"} ELSE {}
        /\ events' = s.events
        /\ last_op' = "data"
        /\ cache' = s.cache
        /\ pending_responses' = s.pending
        /\ g_arrived' = IF pc = "send_wait" THEN g_arrived \o s.arrived
                        ELSE g_arrived

\* rfcommChannelData_data_length_ -> _on_data_received(data)
OnDataReceived ==
    /\ Pumping
    /\ delegate
    /\ link = "open"
    /\ n_data < lim.data
    /\ n_data' = n_data + 1
    /\ \E data \in lim.chunks : _on_data_received(data)
    /\ UNCHANGED <<device, channel, delegate, connected, link, pc, call,
                   ret, connect_ret, g_payload, g_closed, g_prev, g_hs, n_calls,
                   n_connects, lim>>

pending_survives_close(pending) == pending

\* self._pending_responses.clear() in _on_disconnected
pending_at_close(pending) == <<>>

\* a closure callback that forgets to drop the channel
OnDisconnectedKeepsChannel ==
    /\ Pumping
    /\ delegate
    /\ link \in {"opening", "open"}
    /\ link' = "none"
    /\ connected' = FALSE
    /\ device' = FALSE
    /\ delegate' = FALSE
    /\ recv_buffer' = <<>>
    /\ pending_responses' = <<>>
    /\ g_closed' = (g_closed \/ pc = "send_wait")
    /\ tx' = <<>>
    /\ ops' = {}
    /\ events' = <<>>
    /\ last_op' = "closed"
    /\ UNCHANGED <<channel, seq_number, cache, pc, call, ret, connect_ret, g_payload,
                   g_arrived, g_prev, g_hs, n_data, n_calls, n_connects, lim>>

\* rfcommChannelClosed_ -> _on_disconnected()
OnDisconnected ==
    /\ Pumping
    /\ delegate
    /\ link \in {"opening", "open"}
    /\ link' = "none"
    /\ connected' = FALSE
    /\ channel' = FALSE
    /\ device' = FALSE
    /\ delegate' = FALSE
    /\ recv_buffer' = <<>>
    /\ pending_responses' = pending_at_close(pending_responses)
    /\ g_closed' = (g_closed \/ pc = "send_wait")
    /\ tx' = <<>>
    /\ ops' = {}
    /\ events' = <<>>
    /\ last_op' = "closed"
    /\ UNCHANGED <<seq_number, cache, pc, call, ret, connect_ret, g_payload,
                   g_arrived, g_prev, g_hs, n_data, n_calls, n_connects, lim>>

\* the OS completes the asynchronous open of the channel
ChannelOpens ==
    /\ Pumping
    /\ link = "opening"
    /\ link' = "open"
    /\ tx' = <<>>
    /\ ops' = {}
    /\ events' = <<>>
    /\ last_op' = "opened"
    /\ UNCHANGED <<session_vars, pc, call, ret, connect_ret, hist_vars>>

no_cleanup == {}

close_always == {"closeChannel", "closeConnection"}

\* if self.channel: closeChannel(); if self.device: closeConnection()
cleanup_ops ==
    (IF channel THEN {"closeChannel"} ELSE {}) \cup
    (IF device THEN {"closeConnection"} ELSE {})

never_connected == FALSE

\* if self._connected: return True
already_connected == connected

\* connect(address) up to its return or its wait for the channel to open
Connect ==
    /\ pc = "idle"
    /\ n_connects < lim.connects
    /\ n_connects' = n_connects + 1
    /\ IF already_connected
       THEN /\ connect_ret' = "true"
            /\ ops' = {}
            /\ events' = <<>>
            /\ last_op' = "connect"
            /\ UNCHANGED <<device, channel, delegate, link, pc, g_hs>>
       ELSE /\ g_hs' = <<>>
            /\ \/ \* deviceWithAddressString_ returns None
                  /\ device' = FALSE /\ channel' = FALSE /\ delegate' = FALSE
                  /\ link' = "none"
                  /\ ops' = cleanup_ops \cup {"deviceWithAddressString"}
                  /\ events' = <<>>
                  /\ last_op' = "connect"
                  /\ connect_ret' = "false"
                  /\ UNCHANGED pc
               \/ \* performSDPQuery_ fails
                  /\ device' = TRUE /\ channel' = FALSE /\ delegate' = FALSE
                  /\ link' = "none"
                  /\ ops' = cleanup_ops \cup
                            {"deviceWithAddressString", "performSDPQuery"}
                  /\ events' = <<>>
                  /\ last_op' = "connect"
                  /\ connect_ret' = "false"
                  /\ UNCHANGED pc
               \/ \* openRFCOMMChannelAsync fails, with or without a channel object
                  /\ device' = TRUE /\ delegate' = TRUE
                  /\ channel' \in BOOLEAN
                  /\ link' = "none"
                  /\ ops' = cleanup_ops \cup
                            {"deviceWithAddressString", "performSDPQuery",
                             "openRFCOMMChannelAsync"}
                  /\ events' = <<>>
                  /\ last_op' = "connect"
                  /\ connect_ret' = "false"
                  /\ UNCHANGED pc
               \/ \* the open is under way
                  /\ device' = TRUE /\ delegate' = TRUE /\ channel' = TRUE
                  /\ link' = "opening"
                  /\ ops' = cleanup_ops \cup
                            {"deviceWithAddressString", "performSDPQuery",
                             "openRFCOMMChannelAsync"}
                  /\ events' = <<>>
                  /\ last_op' = "connect"
                  /\ pc' = "open_wait"
                  /\ UNCHANGED connect_ret
    /\ tx' = <<>>
    /\ UNCHANGED <<seq_number, recv_buffer, pending_responses, connected, cache,
                   call, ret, g_payload, g_arrived, g_closed, g_prev, n_data,
                   n_calls, lim>>

\* One iteration of connect's wait for the channel, from the return of
\* runUntilDate_: the channel is open and the session is reset, or it is not
\* and the iterations are used up or not.
ConnectOpenPoll ==
    /\ pc = "open_wait"
    /\ IF channel /\ link = "open"
       THEN /\ connected' = TRUE
            /\ seq_number' = 0
            /\ recv_buffer' = <<>>
            /\ pending_responses' = <<>>
            /\ pc' = "drain"
            /\ UNCHANGED connect_ret
       ELSE /\ \/ UNCHANGED <<pc, connect_ret>>
               \/ /\ pc' = "idle"
                  /\ connect_ret' = "false"
            /\ UNCHANGED <<connected, seq_number, recv_buffer, pending_responses>>
    /\ tx' = <<>>
    /\ ops' = {}
    /\ events' = <<>>
    /\ last_op' = "connect"
    /\ UNCHANGED <<device, channel, delegate, cache, link, call, ret, hist_vars>>

\* connect: the drain is over, the first handshake command is sent
ConnectHandshake1 ==
    /\ pc = "drain"
    /\ SendCall(Init1, "init1", <<>>)
    /\ UNCHANGED <<seq_number, device, channel, delegate, recv_buffer, connected,
                   cache, link, connect_ret, n_data, n_calls,
                   n_connects, lim>>

\* connect: the second handshake command is sent
ConnectHandshake2 ==
    /\ pc = "ret_init1"
    /\ SendCall(Init2, "init2", pending_responses)
    /\ UNCHANGED <<seq_number, device, channel, delegate, recv_buffer, connected,
                   cache, link, connect_ret, n_data, n_calls,
                   n_connects, lim>>

\* connect returns True
ConnectReturns ==
    /\ pc = "ret_init2"
    /\ pc' = "idle"
    /\ connect_ret' = "true"
    /\ tx' = <<>>
    /\ ops' = {}
    /\ events' = <<>>
    /\ last_op' = "connect"
    /\ UNCHANGED <<session_vars, link, call, ret, hist_vars>>

\* a disconnect that forgets the cached state
DisconnectResetsCache ==
    /\ pc = "idle"
    /\ link' = (IF channel THEN "none" ELSE link)
    /\ channel' = FALSE
    /\ device' = FALSE
    /\ connected' = FALSE
    /\ delegate' = FALSE
    /\ recv_buffer' = <<>>
    /\ pending_responses' = <<>>
    /\ cache' = InitCache
    /\ tx' = <<>>
    /\ ops' = cleanup_ops
    /\ events' = <<>>
    /\ last_op' = "disconnect"
    /\ UNCHANGED <<seq_number, pc, call, ret, connect_ret, hist_vars>>

\* disconnect()
Disconnect ==
    /\ pc = "idle"
    /\ link' = (IF channel THEN "none" ELSE link)
    /\ channel' = FALSE
    /\ device' = FALSE
    /\ connected' = FALSE
    /\ delegate' = FALSE
    /\ recv_buffer' = <<>>
    /\ pending_responses' = <<>>
    /\ tx' = <<>>
    /\ ops' = cleanup_ops
    /\ events' = <<>>
    /\ last_op' = "disconnect"
    /\ UNCHANGED <<seq_number, cache, pc, call, ret, connect_ret, hist_vars>>

SessionStep ==
    \/ Connect
    \/ ConnectOpenPoll
    \/ ConnectHandshake1
    \/ ConnectHandshake2
    \/ ConnectReturns
    \/ Disconnect
    \/ SendCommand
    \/ SendPoll
    \/ OnDataReceived
    \/ OnDisconnected
    \/ ChannelOpens

---------------------------------------------------------------------------
(* app.py: Flask threads and menu callbacks put operations on bt_queue, and  *)
(* main()'s loop takes them off and runs them.  The main thread is at        *)
(* main_pc:                                                                  *)
(*   "pump"   in nextEventMatchingMask_/sendEvent_: menu callbacks run       *)
(*   "drain"  in `while not bt_queue.empty()`, between two operations        *)
(*   "in_fn"  inside fn(), a connect, disconnect or send_command             *)

MaxHttp == 2
MaxOps == 3

HttpThreads == 1..MaxHttp
OpKinds == {"connect", "disconnect", "send_command"}

\* the callable put for an operation; by = 0 for a menu callback
Fn(kind, by) == [id |-> Len(g_submitted) + 1, kind |-> kind, by |-> by]

\* a caller that runs the operation on its own thread
run_directly(t, fn) ==
    /\ executing' = executing \cup {fn}
    /\ g_started' = Append(g_started, fn.id)
    /\ g_submitted' = Append(g_submitted, fn.id)
    /\ http' = [http EXCEPT ![t] = fn.id]
    /\ UNCHANGED bt_queue

\* run_on_main(fn, *args) up to result_event.wait()
run_on_main(t, fn) ==
    /\ bt_queue' = Append(bt_queue, fn)
    /\ g_submitted' = Append(g_submitted, fn.id)
    /\ http' = [http EXCEPT ![t] = fn.id]
    /\ UNCHANGED <<executing, g_started>>

\* a Flask route calls run_on_main
HttpSubmit ==
    /\ Len(g_submitted) < MaxOps
    /\ \E t \in HttpThreads, kind \in OpKinds :
         /\ http[t] = 0
         /\ run_on_main(t, Fn(kind, t))
    /\ UNCHANGED main_pc

\* result_event.wait(timeout) gives up: TimeoutError, the callable stays queued
HttpTimeout ==
    /\ \E t \in HttpThreads :
         /\ http[t] # 0
         /\ http' = [http EXCEPT ![t] = 0]
    /\ UNCHANGED <<bt_queue, main_pc, executing, g_submitted, g_started>>

\* MenuBarDelegate.toggleConnection_, ancOff_, ...: bt_queue.put(lambda: ...)
MenuCallback ==
    /\ main_pc = "pump"
    /\ Len(g_submitted) < MaxOps
    /\ \E kind \in OpKinds :
         /\ bt_queue' = Append(bt_queue, Fn(kind, 0))
         /\ g_submitted' = Append(g_submitted, Fn(kind, 0).id)
    /\ UNCHANGED <<main_pc, executing, http, g_started>>

\* main(): the event pump returns
MainPump ==
    /\ main_pc = "pump"
    /\ main_pc' = "drain"
    /\ UNCHANGED <<bt_queue, executing, http, g_submitted, g_started>>

\* main(): fn = bt_queue.get_nowait(); fn() is entered
MainTakes ==
    /\ main_pc = "drain"
    /\ bt_queue # <<>>
    /\ bt_queue' = Tail(bt_queue)
    /\ executing' = executing \cup {Head(bt_queue)}
    /\ g_started' = Append(g_started, Head(bt_queue).id)
    /\ main_pc' = "in_fn"
    /\ UNCHANGED <<http, g_submitted>>

\* main(): fn() returns; the wrapper of run_on_main sets result_event
FnReturns ==
    /\ main_pc = "in_fn"
    /\ \E fn \in executing :
         /\ fn.id = g_started[Len(g_started)]
         /\ executing' = executing \ {fn}
         /\ http' = [t \in HttpThreads |-> IF http[t] = fn.id THEN 0 ELSE http[t]]
    /\ main_pc' = "drain"
    /\ UNCHANGED <<bt_queue, g_submitted, g_started>>

\* main(): bt_queue.empty(), back to the event pump
MainDrained ==
    /\ main_pc = "drain"
    /\ bt_queue = <<>>
    /\ main_pc' = "pump"
    /\ UNCHANGED <<bt_queue, executing, http, g_submitted, g_started>>

QueueStep ==
    \/ HttpSubmit
    \/ HttpTimeout
    \/ MenuCallback
    \/ MainPump
    \/ MainTakes
    \/ FnReturns
    \/ MainDrained

\* main() entered, nothing queued
QueueInit ==
    /\ bt_queue = <<>>
    /\ main_pc = "pump"
    /\ executing = {}
    /\ http = [t \in HttpThreads |-> 0]
    /\ g_submitted = <<>>
    /\ g_started = <<>>

---------------------------------------------------------------------------
(* app.py: api_status runs on a Flask thread and reads the connector's       *)
(* attributes one after the other, while the main thread runs                *)
(* _process_notification, which assigns them one after the other.            *)

MaxNotes == 2

VolumeRet == Message(DataType_DATA_MDR, 0, <<167, 0, 12>>)

\* the messages _process_notification is given
Notes ==
    { Message(DataType_DATA_MDR, 0, <<35, 0, 77, 1>>),
      Message(DataType_DATA_MDR, 1, <<35, 0, 50, 0>>),
      Message(DataType_DATA_MDR, 0, <<103, 25, 1, 1, 0>>),
      VolumeRet }

\* the attributes in the order api_status reads them
StatusFields ==
    <<"connected", "battery_level", "battery_charging", "anc_mode",
      "volume_level", "dsee_enabled", "speak_to_chat_enabled">>

\* what api_status would return if it read every attribute at once
StateOf(c, conn) == [f \in DOMAIN c \cup {"connected"} |->
                        IF f = "connected" THEN conn ELSE c[f]]

DeviceState == StateOf(cache, connected)

\* _process_notification(msg) up to its first assignment
NoteBegins ==
    /\ wr_pc = "idle"
    /\ n_notes < MaxNotes
    /\ n_notes' = n_notes + 1
    /\ \E msg \in Notes :
         IF IsBatteryRet(msg)
         THEN /\ cache' = [cache EXCEPT !.battery_level = msg.payload[3]]
              /\ wr_pc' = "charging"
              /\ wr_msg' = msg
              /\ UNCHANGED g_held
         ELSE /\ cache' = _process_notification(cache, msg)
              /\ g_held' = g_held \cup {StateOf(cache', connected)}
              /\ UNCHANGED <<wr_pc, wr_msg>>
    /\ UNCHANGED <<rd_pc, snap>>

\* self.battery_charging = bool(msg.payload[3])
NoteEnds ==
    /\ wr_pc = "charging"
    /\ cache' = _process_notification(cache, wr_msg)
    /\ wr_pc' = "idle"
    /\ wr_msg' = None
    /\ g_held' = g_held \cup {StateOf(cache', connected)}
    /\ UNCHANGED <<rd_pc, snap, n_notes>>

\* api_status is entered
StatusBegins ==
    /\ rd_pc = "off"
    /\ rd_pc' = "reading"
    /\ UNCHANGED <<cache, snap, wr_pc, wr_msg, g_held, n_notes>>

\* api_status reads the next attribute
StatusReads ==
    /\ rd_pc = "reading"
    /\ snap' = Append(snap, DeviceState[StatusFields[Len(snap) + 1]])
    /\ rd_pc' = IF Len(snap) + 1 = Len(StatusFields) THEN "done" ELSE "reading"
    /\ UNCHANGED <<cache, wr_pc, wr_msg, g_held, n_notes>>

StatusStep ==
    \/ NoteBegins
    \/ NoteEnds
    \/ StatusBegins
    \/ StatusReads

StatusInit ==
    /\ rd_pc = "off"
    /\ snap = <<>>
    /\ wr_pc = "idle"
    /\ wr_msg = None
    /\ g_held = {DeviceState}
    /\ n_notes = 0

---------------------------------------------------------------------------
(* The specifications *)

\* no api_status is part of the behaviour
StatusOff ==
    /\ rd_pc = "off"
    /\ snap = <<>>
    /\ wr_pc = "idle"
    /\ wr_msg = None
    /\ g_held = {}
    /\ n_notes = 0

\* app.py is not part of the behaviour
AppIdle ==
    /\ bt_queue = <<>>
    /\ main_pc = "off"
    /\ executing = {}
    /\ http = <<>>
    /\ g_submitted = <<>>
    /\ g_started = <<>>
    /\ StatusOff

CodecIdle ==
    /\ t_in = None
    /\ t_case = "none"
    /\ t_buf = <<>>
    /\ t_aux = NoAux
    /\ t_msg = None
    /\ t_rem = <<>>
    /\ t_pc = "off"
    /\ ex_buf = <<>>
    /\ ex_depth = 0

Init == SessionInit /\ CodecIdle /\ AppIdle
Next == SessionStep /\ UNCHANGED <<codec_vars, app_vars>>
Spec == Init /\ [][Next]_vars

InitLife == LifeInit /\ CodecIdle /\ AppIdle
SpecLife == InitLife /\ [][Next]_vars

InitAck == AckInit /\ CodecIdle /\ AppIdle
SpecAck == InitAck /\ [][Next]_vars

InitAnyPayload == AnyPayloadInit /\ CodecIdle /\ AppIdle
SpecAnyPayload == InitAnyPayload /\ [][Next]_vars

\* The loop of send_command ends: each iteration pumps the run loop for at most
\* 0.05 s and then compares the monotonic clock with the deadline, so a call
\* that keeps waiting reaches its deadline.
SendLoopEnds == SendPoll /\ call' = NoCall /\ UNCHANGED <<codec_vars, app_vars>>
SpecLive == InitLife /\ [][Next]_vars /\ WF_vars(SendLoopEnds)

\* _process_notification applied to one message on a fresh connector
FlagBytes == {0, 1, 2, 255}
DecodeOpcodes == {35, 102, 103, 105}

\* level and volume bytes: the ends of the documented ranges and beyond them
LevelBytes == {0, 30, 31, 100, 101, 255}
VolumeOpcodes == {167, 169}

DecodeInputs ==
    { Message(DataType_DATA_MDR, 0, <<op, 25, 1, e, a>>) :
        op \in DecodeOpcodes, e \in FlagBytes, a \in FlagBytes } \cup
    { Message(DataType_DATA_MDR, 0, <<op, 25, 1, e>>) :
        op \in DecodeOpcodes, e \in FlagBytes } \cup
    { Message(DataType_DATA_MDR, 0, <<35, 0, lv, ch>>) :
        lv \in LevelBytes, ch \in {0, 1} } \cup
    { Message(DataType_DATA_MDR, 0, <<op, 0, lv>>) :
        op \in VolumeOpcodes, lv \in LevelBytes }

DecodeInit ==
    /\ SessionInit
    /\ AppIdle
    /\ t_in \in DecodeInputs
    /\ t_case = "none"
    /\ t_buf = <<>>
    /\ t_aux = NoAux
    /\ t_msg = None
    /\ t_rem = <<>>
    /\ t_pc = "ready"
    /\ ex_buf = <<>>
    /\ ex_depth = 0

ApplyNotification ==
    /\ t_pc = "ready"
    /\ cache' = _process_notification(cache, t_in)
    /\ t_case' = "decode"
    /\ t_pc' = "done"
    /\ UNCHANGED <<t_in, t_buf, t_aux, t_msg, t_rem, ex_buf, ex_depth,
                   seq_number, device, channel, delegate, recv_buffer,
                   pending_responses, connected, env_vars, hist_vars, app_vars>>

SpecDecode == DecodeInit /\ [][ApplyNotification]_vars

\* One byte stream given to an open session in pieces.  The session is as
\* connect leaves it when both handshake commands timed out.
MaxCuts == 2

ResyncStream == <<62>> \o BatteryRet1

Streams ==
    { BatteryRet2 \o AncRet,
      ResyncStream,
      DeviceAck \o <<0, 60>> \o BatteryRet2,
      ReplaceAt(BatteryRet1, 4, 1) \o AncRet,
      AckSeq2 \o SubSeq(BatteryRet1, 1, 5),
      <<60, 0>> \o WrapRet \o <<62>> }

\* the places where a stream is cut, in order
Cuts(stream) ==
    {c \in [1..MaxCuts -> 0..Len(stream)] : \A k \in 1..(MaxCuts - 1) : c[k] <= c[k + 1]}

\* the pieces of stream between the cuts c
Pieces(stream, c) ==
    [k \in 1..(MaxCuts + 1) |->
        SubSeq(stream,
               (IF k = 1 THEN 0 ELSE c[k - 1]) + 1,
               IF k = MaxCuts + 1 THEN Len(stream) ELSE c[k])]

OpenSession ==
    /\ seq_number = 0
    /\ device = TRUE
    /\ channel = TRUE
    /\ delegate = TRUE
    /\ recv_buffer = <<>>
    /\ pending_responses = <<>>
    /\ connected = TRUE
    /\ cache = InitCache
    /\ link = "open"
    /\ tx = <<>>
    /\ ops = {}
    /\ events = <<>>
    /\ last_op = "connect"
    /\ pc = "idle"
    /\ call = NoCall
    /\ ret = [kind |-> "timeout", msg |-> None]
    /\ connect_ret = "true"
    /\ g_payload = Init2
    /\ g_arrived = <<>>
    /\ g_closed = FALSE
    /\ g_prev = "timeout"
    /\ g_hs = <<Init1, Init2>>
    /\ n_data = 0
    /\ n_calls = 0
    /\ n_connects = 1

ChunksInit ==
    /\ OpenSession
    /\ lim = [data |-> MaxCuts + 1, calls |-> 0, connects |-> 1,
              payloads |-> Commands, chunks |-> Chunks]
    /\ AppIdle
    /\ \E stream \in Streams : \E c \in Cuts(stream) :
         /\ t_in = [stream |-> stream, cuts |-> c]
         /\ t_aux = Pieces(stream, c)
    /\ t_case = "pieces"
    /\ t_buf = <<>>
    /\ t_msg = None
    /\ t_rem = <<>>
    /\ t_pc = "ready"
    /\ ex_buf = <<>>
    /\ ex_depth = 0

\* the next piece arrives; t_buf collects the frames written, t_rem what was
\* done with each message
FeedPiece ==
    /\ t_pc = "ready"
    /\ t_aux # <<>>
    /\ n_data' = n_data + 1
    /\ _on_data_received(Head(t_aux))
    /\ t_aux' = Tail(t_aux)
    /\ t_buf' = t_buf \o tx'
    /\ t_rem' = t_rem \o events'
    /\ t_pc' = IF Tail(t_aux) = <<>> THEN "done" ELSE "ready"
    /\ UNCHANGED <<t_in, t_case, t_msg, ex_buf, ex_depth, device, channel, delegate,
                   connected, link, pc, call, ret, connect_ret, g_payload, g_closed,
                   g_prev, g_hs, n_calls, n_connects, lim, app_vars>>

SpecChunks == ChunksInit /\ [][FeedPiece]_vars

\* build_anc_command_xm6 applied to a mode, a level and a focus flag
MaxLevelExcess == 3

AncModes == {AncMode_OFF, AncMode_NOISE_CANCELLING, AncMode_AMBIENT_SOUND}
LevelInputs == (0 - MaxLevelExcess)..(20 + MaxLevelExcess) \cup {-300, 255, 300}

BuildInputs ==
    [mode : AncModes, asm_level : LevelInputs, focus_voice : BOOLEAN]

BuildInit ==
    /\ SessionInit
    /\ AppIdle
    /\ t_in \in BuildInputs
    /\ t_case = "none"
    /\ t_buf = <<>>
    /\ t_aux = NoAux
    /\ t_msg = None
    /\ t_rem = <<>>
    /\ t_pc = "ready"
    /\ ex_buf = <<>>
    /\ ex_depth = 0

ApplyBuild ==
    /\ t_pc = "ready"
    /\ t_buf' = build_anc_command_xm6(t_in.mode, t_in.asm_level, t_in.focus_voice)
    /\ t_case' = "build"
    /\ t_pc' = "done"
    /\ UNCHANGED <<t_in, t_aux, t_msg, t_rem, ex_buf, ex_depth,
                   session_vars, env_vars, hist_vars, app_vars>>

SpecBuild == BuildInit /\ [][ApplyBuild]_vars

\* pack applied to headers and payloads with reserved bytes in every field,
\* among them payloads whose length byte is itself a reserved byte
PackHeaders == HeaderSample \cup {<<60, 62>>, <<61, 61>>}
LongPayloads == {[i \in 1..n |-> b] : n \in 60..62, b \in {0, 62}}
PackInputs ==
    {Message(h[1], h[2], p) : h \in PackHeaders, p \in Payloads \cup LongPayloads}

PackInit ==
    /\ SessionInit
    /\ AppIdle
    /\ t_in \in PackInputs
    /\ t_case = "none"
    /\ t_buf = <<>>
    /\ t_aux = NoAux
    /\ t_msg = None
    /\ t_rem = <<>>
    /\ t_pc = "ready"
    /\ ex_buf = <<>>
    /\ ex_depth = 0

\* pack(data_type, seq, payload)
ApplyPack ==
    /\ t_pc = "ready"
    /\ t_buf' = pack(t_in.data_type, t_in.seq, t_in.payload)
    /\ t_case' = "pack"
    /\ t_pc' = "done"
    /\ UNCHANGED <<t_in, t_aux, t_msg, t_rem, ex_buf, ex_depth,
                   session_vars, env_vars, hist_vars, app_vars>>

SpecPack == PackInit /\ [][ApplyPack]_vars

\* the queue of app.py, the connector left as constructed
InitQueue == SessionInit /\ CodecIdle /\ QueueInit /\ StatusOff
NextQueue ==
    QueueStep /\ UNCHANGED <<codec_vars, session_vars, env_vars, hist_vars, status_vars>>
SpecQueue == InitQueue /\ [][NextQueue]_vars

\* api_status against _process_notification, the connector otherwise as constructed
InitStatus ==
    /\ SessionInit
    /\ CodecIdle
    /\ bt_queue = <<>> /\ main_pc = "off" /\ executing = {} /\ http = <<>>
    /\ g_submitted = <<>> /\ g_started = <<>>
    /\ StatusInit
NextStatus ==
    /\ StatusStep
    /\ UNCHANGED <<codec_vars, seq_number, device, channel, delegate, recv_buffer,
                   pending_responses, connected, env_vars, hist_vars, queue_vars>>
SpecStatus == InitStatus /\ [][NextStatus]_vars

CodecInit == CodecInputs /\ SessionInit /\ AppIdle
CodecNext == CodecStep /\ UNCHANGED <<session_vars, env_vars, hist_vars, app_vars>>
SpecCodec == CodecInit /\ [][CodecNext]_vars

---------------------------------------------------------------------------
(* Properties of the codec, checked under SpecCodec *)

\* C1: unpack(pack(data_type, seq, P)) is the Message with exactly that
\* data_type, seq and payload P, reserved bytes and the empty payload included.
C1_RoundTrip ==
    t_case = "roundtrip" =>
        t_msg = Message(t_in.data_type, t_in.seq, t_in.payload)

C1_Witness ==
    /\ t_case = "roundtrip"
    /\ t_in.payload = <<61, 44>>
    /\ t_in.data_type = START_MARKER
    /\ t_msg = t_in

\* C2: unescape(escape(B)) = B for every byte string B.
C2_EscapeReversible ==
    t_case = "escape" => t_rem = t_in.payload

C2_Witness ==
    /\ t_case = "escape"
    /\ t_in.payload = <<61, 44>>
    /\ t_buf = <<61, 45, 44>>
    /\ t_rem = <<61, 44>>

\* C3: extract_message(pack(t, s, P) ++ T) returns the message (t, s, P) and
\* the remainder T, whatever the trailing bytes T are.
C3_ExtractTail ==
    (t_case = "tail" /\ t_pc = "done") =>
        /\ t_msg = Message(t_in.data_type, t_in.seq, t_in.payload)
        /\ t_rem = t_aux.tail

C3_Witness ==
    /\ t_case = "tail"
    /\ t_pc = "done"
    /\ t_aux.tail = <<START_MARKER, END_MARKER>>
    /\ t_msg = t_in
    /\ t_rem = <<START_MARKER, END_MARKER>>

\* C4: on a buffer with a start marker and no end marker after the first start
\* marker, extract_message returns no message and the buffer from that start
\* marker onward.
C4_PartialKept ==
    (t_case = "partial" /\ t_pc = "done") =>
        /\ t_msg = None
        /\ t_rem = SubSeq(t_buf, find(t_buf, START_MARKER, 1), Len(t_buf))

C4_Witness ==
    /\ t_case = "partial"
    /\ t_pc = "done"
    /\ t_aux.tail = <<0, END_MARKER>>
    /\ t_aux.idx > 1
    /\ t_msg = None
    /\ Len(t_rem) = Len(t_buf) - 2

\* The message of the well-formed frame that follows the corrupted one
Frame2Msg == Message(t_in.data_type, NextSeq, t_in.payload)

\* The suffixes of the corrupted span that begin at a later start marker and
\* that unpack accepts
AcceptedSuffixes(c) ==
    {j \in 2..Len(c) : c[j] = START_MARKER /\ unpack(SubSeq(c, j, Len(c))) # None}

FirstAccepted(c) ==
    CHOOSE j \in AcceptedSuffixes(c) : \A k \in AcceptedSuffixes(c) : j <= k

\* C5 as stated: on a corrupted frame (a start-marker..end-marker span that
\* unpack rejects) followed by a well-formed frame, extract_message returns the
\* well-formed frame's message and the bytes after that frame (none here).
C5_ResyncAlways ==
    (t_case = "resync" /\ t_pc = "done") =>
        /\ t_msg = Frame2Msg
        /\ t_rem = <<>>

\* C5 amended: that holds when no suffix of the corrupted span beginning at a
\* later start marker is itself accepted by unpack; otherwise extract_message
\* returns the message of the first such suffix, and the remainder is the
\* whole well-formed frame that followed.
C5_Resync ==
    (t_case = "resync" /\ t_pc = "done") =>
        IF AcceptedSuffixes(t_aux.tail) = {}
        THEN /\ t_msg = Frame2Msg
             /\ t_rem = <<>>
        ELSE /\ t_msg = unpack(SubSeq(t_aux.tail, FirstAccepted(t_aux.tail),
                                      Len(t_aux.tail)))
             /\ t_rem = Frame2

C5_Witness ==
    /\ t_case = "resync"
    /\ t_pc = "done"
    /\ t_aux.kind = "replace"
    /\ AcceptedSuffixes(t_aux.tail) = {}
    /\ ex_depth >= 1
    /\ t_msg = Frame2Msg
    /\ t_rem = <<>>

\* C6 as stated: unpack returns a Message only if the number of bytes between
\* the header and the checksum equals the declared length; with a valid
\* checksum, a smaller or larger declared length gives None.
C6_LengthExact ==
    (t_case = "length" /\ t_msg # None) => t_aux.declared = Len(t_in.payload)

\* C7: changing one interior byte of a packed frame, without creating or
\* destroying an escape pair, makes unpack return None.
C7_FlipDetected ==
    (/\ t_case = "flip"
     /\ EscapePairs(Interior(t_buf)) = EscapePairs(Interior(Frame)))
        => t_msg = None

C7_Witness ==
    /\ t_case = "flip"
    /\ EscapePairs(Interior(t_buf)) = EscapePairs(Interior(Frame))
    /\ EscapePairs(Interior(Frame)) # {}
    /\ t_aux.idx = 2
    /\ t_msg = None

\* C8: every retry of extract_message runs on a strictly shorter buffer, and
\* the number of retries never exceeds the length of the buffer given.
C8_RetryShrinks ==
    [][(t_pc = "extracting" /\ t_pc' = "extracting") =>
          /\ Len(ex_buf') < Len(ex_buf)
          /\ ex_depth' <= Len(t_buf)]_vars

C8_Witness ==
    /\ t_pc = "done"
    /\ ex_depth >= 2
    /\ t_msg # None

---------------------------------------------------------------------------
(* Properties of send_command, checked under Spec *)

\* the opcodes a response to the last command may carry
ExpectedOpcodes == {g_payload[1], (g_payload[1] + 1) % 256}

\* the positions, among the non-ACK messages received during the last call,
\* of those that carry one of them
Matching ==
    {i \in 1..Len(g_arrived) :
        /\ g_arrived[i].payload # <<>>
        /\ g_arrived[i].payload[1] \in ExpectedOpcodes}

\* the last send_command waited and has returned
Waited == call = NoCall /\ ret.kind \in {"message", "timeout"}

\* C9: the message send_command returns is the earliest non-ACK message
\* received since the call began whose opcode is the command's or the next one;
\* messages with other opcodes are never returned, and they do not keep a
\* matching message from being returned (while the channel stays open).
C9_EarliestMatch ==
    Waited =>
        /\ ret.kind = "message" =>
              /\ Matching # {}
              /\ \E i \in Matching :
                    /\ \A j \in Matching : i <= j
                    /\ ret.msg = g_arrived[i]
        /\ (ret.kind = "timeout" /\ ~g_closed) => Matching = {}

C9_Witness ==
    /\ Waited
    /\ g_payload = <<34, 0>>
    /\ Len(g_arrived) = 3
    /\ g_arrived[1].payload[1] = 103
    /\ g_arrived[2].payload = <<35, 0, 77, 1>>
    /\ g_arrived[3].payload = <<35, 0, 50, 0>>
    /\ ret.kind = "message"
    /\ ret.msg = g_arrived[2]

\* a send_command begins in this step
BeginsSend ==
    \/ pc = "idle" /\ n_calls' = n_calls + 1
    \/ pc = "drain" /\ pc' # "drain"
    \/ pc = "ret_init1" /\ pc' # "ret_init1"

\* the running send_command gives up in this step
TimesOut == pc = "send_wait" /\ call' = NoCall /\ ret'.kind = "timeout"

\* C10: with no matching message before the timeout send_command returns
\* none; the timeout leaves the session as it was (connected, unless the
\* channel was closed meanwhile); a send_command that follows is accepted,
\* starts from an empty pending list, and what it returns is a message
\* received during that call, not one left over.
C10_TimeoutNotStuck ==
    /\ []((Waited /\ Matching = {}) => (ret.kind = "timeout" /\ ret.msg = None))
    /\ []((Waited /\ g_prev = "timeout" /\ ret.kind = "message") =>
            \E i \in Matching : ret.msg = g_arrived[i])
    /\ [][TimesOut =>
            /\ pc' = ReturnPoint(call.caller)
            /\ UNCHANGED <<session_vars, link>>
            /\ ~g_closed => (connected' /\ channel')]_vars
    /\ [][(BeginsSend /\ ret.kind = "timeout" /\ connected /\ channel) =>
            \/ ret'.kind = "write_failed"
            \/ /\ pc' = "send_wait"
               /\ pending_responses' = <<>>
               /\ tx' = <<pack(DataType_DATA_MDR, seq_number, g_payload')>>]_vars

C10_Witness ==
    /\ Waited
    /\ g_prev = "timeout"
    /\ pc = "idle"
    /\ connected
    /\ g_payload = <<102, 25>>
    /\ ret.kind = "message"
    /\ ret.msg.payload[1] = 103

\* C11: a send_command on a session that is not connected (flag false or no
\* channel) returns none at once, calls nothing on the transport, writes no
\* byte, and leaves the sequence number, the receive buffer, the pending list
\* and the cached device state as they were.
C11_NotConnectedRejected ==
    [][(BeginsSend /\ (~connected \/ ~channel)) =>
          /\ ret' = [kind |-> "not_connected", msg |-> None]
          /\ call' = NoCall
          /\ pc' # "send_wait"
          /\ tx' = <<>>
          /\ ops' = {}
          /\ events' = <<>>
          /\ UNCHANGED <<seq_number, recv_buffer, pending_responses, cache>>]_vars

C11_Witness ==
    /\ ret.kind = "not_connected"
    /\ pc = "idle"
    /\ n_calls = 1
    /\ ~connected
    /\ channel
    /\ recv_buffer # <<>>
    /\ pending_responses # <<>>
    /\ cache # InitCache

\* a battery message the decoder acts on: opcode 0x23, four bytes or more
IsBattery(msg) == Len(msg.payload) >= 4 /\ msg.payload[1] = 35

\* the cached battery fields are those of msg
ShowsBattery(c, msg) ==
    /\ c.battery_level = msg.payload[3]
    /\ c.battery_charging = (msg.payload[4] # 0)

\* the positions of the battery messages in a list of messages
Batteries(msgs) == {i \in 1..Len(msgs) : IsBattery(msgs[i])}

\* the running send_command returns a message in this step
ReturnsMessage == pc = "send_wait" /\ call' = NoCall /\ ret'.kind = "message"

\* C12 as stated: when send_command returns a battery reply [0x23, x, L, C]
\* the cached battery level is L and the charging flag is (C # 0).
C12_ReflectsReturned ==
    [][(ReturnsMessage /\ IsBattery(ret'.msg)) => ShowsBattery(cache', ret'.msg)]_vars

\* C12: every queued message has been decoded: the cached battery fields are
\* those of the last battery message in the pending list, if it holds one; and
\* when send_command returns a battery reply they are those of the last
\* battery message received during the call, which is the reply itself when
\* no battery message followed it.
C12_ReflectsLatest ==
    /\ [](\A i \in Batteries(pending_responses) :
            (\A j \in Batteries(pending_responses) : j <= i) =>
                ShowsBattery(cache, pending_responses[i]))
    /\ [][(ReturnsMessage /\ IsBattery(ret'.msg)) =>
            \E i \in Batteries(g_arrived) :
                /\ \A j \in Batteries(g_arrived) : j <= i
                /\ ShowsBattery(cache', g_arrived[i])
                /\ \E k \in Batteries(g_arrived) :
                      k <= i /\ g_arrived[k] = ret'.msg]_vars

C12_Witness ==
    /\ Waited
    /\ ret.kind = "message"
    /\ ret.msg.payload = <<35, 0, 77, 1>>
    /\ Len(g_arrived) = 3
    /\ g_arrived[3].payload = <<35, 0, 50, 0>>
    /\ cache.battery_level = 50
    /\ ~cache.battery_charging
    /\ Len(pending_responses) = 2

\* a data callback runs in this step
DataCallback == n_data' = n_data + 1

\* the ACK frame with sequence a, byte by byte
AckFrame(a) == <<62, 1, a, 0, 0, 0, 0, (1 + a) % 256, 60>>

\* the sequence an ACK answers a frame of sequence s with
AckSeq(s) == IF s \in {0, 1} THEN 1 - s ELSE 0

IsDataEvent(e) == e.msg.data_type # DataType_ACK
IsWrite(e) == e.ev = "write"

\* C14: in a data callback on a session that holds its channel, each extracted
\* non-ACK frame of sequence s has exactly one ACK frame written for it, of
\* sequence 1-s when s is 0 or 1 and 0 otherwise, and the write comes before
\* the frame is decoded into the cache, which comes before it is queued.
C14_AckBeforeDecode ==
    [][(DataCallback /\ channel) =>
          LET new == SubSeq(pending_responses', Len(pending_responses) + 1,
                            Len(pending_responses'))
              ev == SelectSeq(events', IsDataEvent)
              written == SelectSeq(events', IsWrite)
          IN  /\ Len(ev) = 3 * Len(new)
              /\ \A k \in 1..Len(new) :
                    /\ ev[3 * k - 2] =
                          Event("write", new[k], AckFrame(AckSeq(new[k].seq)))
                    /\ ev[3 * k - 1] = Event("decode", new[k], <<>>)
                    /\ ev[3 * k] = Event("queue", new[k], <<>>)
              /\ tx' = [i \in 1..Len(written) |-> written[i].out]]_vars

C14_Witness ==
    /\ Len(events) = 6
    /\ events[3].ev = "queue"
    /\ events[3].msg.payload[1] = 103
    /\ events[4].ev = "write"
    /\ events[4].msg.payload[1] = 35
    /\ tx = <<AckFrame(1), AckFrame(1)>>
    /\ Len(pending_responses) = 2

\* C18 as stated: when the write fails inside send_command the call returns
\* none at once and the session is left disconnected.
C18_WriteFailureDisconnects ==
    (last_op = "send_command" /\ ret.kind = "write_failed" /\ call = NoCall) =>
        /\ ret.msg = None
        /\ pc # "send_wait"
        /\ ~connected

---------------------------------------------------------------------------
(* Properties of connect and disconnect *)

\* C15 as stated: when connect has returned success after opening the
\* transport, it has written [0x00, 0x00] and then [0x06, 0x00].
C15_HandshakeWritten ==
    (pc = "idle" /\ connect_ret = "true") => g_hs = <<Init1, Init2>>

\* C16: connect on a connected session returns success at once, calls nothing
\* on the device or the channel, writes nothing, sends no handshake, and leaves
\* the sequence number, the buffers, the cache and every other field as they were.
C16_ConnectWhenConnected ==
    [][(pc = "idle" /\ connected /\ last_op' = "connect") =>
          /\ connect_ret' = "true"
          /\ pc' = "idle"
          /\ ops' = {}
          /\ tx' = <<>>
          /\ UNCHANGED <<session_vars, link, call, ret, g_hs>>]_vars

C16_Witness ==
    /\ last_op = "connect"
    /\ pc = "idle"
    /\ connected
    /\ connect_ret = "true"
    /\ n_connects = 2
    /\ n_calls = 1
    /\ g_payload \in Commands
    /\ ret.kind = "message"
    /\ cache # InitCache

\* connect has returned failure and nothing has run connect since
ConnectFailed == pc = "idle" /\ connect_ret = "false"

\* C17: whenever connect returns failure the session is disconnected (flag
\* false) and no handshake command was sent; and connect can run again: the
\* next connect closes the channel and the device the failed one left behind,
\* if any, looks the device up again, and when it gets as far as the open it
\* waits on a fresh channel with a fresh delegate.
C17_ConnectFailureClean ==
    /\ [][ConnectFailed' => (~connected' /\ g_hs' = <<>>)]_vars
    /\ [][(ConnectFailed /\ last_op' = "connect") =>
            /\ "deviceWithAddressString" \in ops'
            /\ ("closeChannel" \in ops') = channel
            /\ ("closeConnection" \in ops') = device
            /\ tx' = <<>>
            /\ pc' \in {"idle", "open_wait"}
            /\ pc' = "open_wait" =>
                  (channel' /\ device' /\ delegate' /\ link' = "opening")
            /\ pc' = "idle" => ConnectFailed']_vars

C17_Witness ==
    /\ pc = "open_wait"
    /\ connect_ret = "false"
    /\ last_op = "connect"
    /\ n_connects = 2
    /\ ops = {"closeChannel", "closeConnection", "deviceWithAddressString",
              "performSDPQuery", "openRFCOMMChannelAsync"}
    /\ link = "opening"

\* the session holds nothing of a connection
Disconnected ==
    /\ ~connected
    /\ ~channel
    /\ ~device
    /\ ~delegate
    /\ recv_buffer = <<>>
    /\ pending_responses = <<>>

\* C19: a disconnect, whatever the session held, leaves it disconnected with no
\* channel, device or delegate and with empty receive buffer and pending list,
\* closing the channel and the device it held; a disconnect of a session that
\* holds neither calls nothing on the transport, and a disconnect that follows
\* a disconnect changes no field.
C19_DisconnectIdempotent ==
    /\ [][last_op' = "disconnect" =>
            /\ Disconnected'
            /\ link' = "none"
            /\ tx' = <<>>
            /\ ("closeChannel" \in ops') = channel
            /\ ("closeConnection" \in ops') = device
            /\ ops' \subseteq {"closeChannel", "closeConnection"}
            /\ UNCHANGED <<seq_number, cache, pc, call, ret, connect_ret>>]_vars
    /\ [][(last_op = "disconnect" /\ last_op' = "disconnect") =>
            /\ ops' = {}
            /\ UNCHANGED <<session_vars, link, pc, call, ret, connect_ret>>]_vars

C19_Witness ==
    /\ last_op = "disconnect"
    /\ Disconnected
    /\ ops = {"closeChannel", "closeConnection"}
    /\ link = "none"
    /\ connect_ret = "true"
    /\ ret.kind = "message"
    /\ g_payload \in Commands
    /\ cache # InitCache

\* C20: the closure callback, whenever it is delivered (connect waiting for
\* the open, draining, or waiting for a handshake reply; send_command waiting;
\* nothing running), leaves the session disconnected with no channel, device or
\* delegate and with empty receive buffer and pending list, and the operation
\* under way goes on; only a connect that sees the channel open makes the
\* session connected again; and a send_command begun on a session that is not
\* connected returns none, writes nothing and calls nothing on the transport.
C20_ClosedForcesDisconnected ==
    /\ [][last_op' = "closed" =>
            /\ Disconnected'
            /\ link' = "none"
            /\ tx' = <<>>
            /\ ops' = {}
            /\ UNCHANGED <<pc, call, ret, connect_ret>>]_vars
    /\ [][(~connected /\ connected') =>
            /\ pc = "open_wait"
            /\ last_op' = "connect"
            /\ link = "open"
            /\ channel]_vars
    /\ [][(BeginsSend /\ ~connected) =>
            /\ ret'.msg = None
            /\ ret'.kind = "not_connected"
            /\ call' = NoCall
            /\ tx' = <<>>
            /\ ops' = {}]_vars

C20_Witness ==
    /\ pc = "ret_init1"
    /\ last_op = "send_command"
    /\ ret.kind = "not_connected"
    /\ Disconnected
    /\ link = "none"
    /\ n_connects = 2

---------------------------------------------------------------------------
(* Properties of _process_notification, checked under SpecDecode *)

\* an ANC RET/NOTIFY message the decoder acts on
IsAnc(msg) == Len(msg.payload) >= 5 /\ msg.payload[1] \in {103, 105}

---------------------------------------------------------------------------
(* Properties of the waiting send_command, checked under SpecLive *)

\* C21: every send_command that waits returns; one during whose wait the
\* channel was closed returns none, by its timeout, whatever had arrived
\* before the closure.
C21_SendReturns ==
    /\ (pc = "send_wait") ~> (pc # "send_wait")
    /\ [][(pc = "send_wait" /\ g_closed /\ call' = NoCall) =>
            /\ ret'.kind = "timeout"
            /\ ret'.msg = None
            /\ pc' = ReturnPoint(call.caller)]_vars

C21_Witness ==
    /\ g_closed
    /\ call = NoCall
    /\ ret.kind = "timeout"
    /\ pc = "idle"
    /\ Matching # {}

---------------------------------------------------------------------------
(* Properties of the operation queue, checked under SpecQueue *)

IsPrefix(a, b) == Len(a) <= Len(b) /\ a = SubSeq(b, 1, Len(a))

\* C22: at most one queued operation is running at any time, and only while
\* the main thread is inside fn(); the operations begin in the order in which
\* they were put, each after the one before it has returned.
C22_OneAtATime ==
    /\ Cardinality(executing) <= 1
    /\ (executing # {}) = (main_pc = "in_fn")
    /\ IsPrefix(g_started, g_submitted)
    /\ \A fn \in executing : fn.id = g_started[Len(g_started)]
    /\ \A i \in 1..Len(bt_queue) : bt_queue[i].id = g_submitted[Len(g_started) + i]

C22_Witness ==
    /\ Cardinality(executing) = 1
    /\ \E fn \in executing : fn.kind = "send_command" /\ fn.id = 2 /\ fn.by # 0 /\ http[fn.by] = 2
    /\ Len(bt_queue) = 1
    /\ bt_queue[1].by = 0
    /\ bt_queue[1].kind = "connect"
    /\ g_started = <<1, 2>>

---------------------------------------------------------------------------
(* Properties of api_status, checked under SpecStatus *)

\* the values api_status returned, by field
Snapshot == [f \in DOMAIN DeviceState |->
                snap[CHOOSE i \in 1..Len(StatusFields) : StatusFields[i] = f]]

\* C23: what api_status returns is a state the session held between two
\* messages.
C23_SnapshotConsistent ==
    rd_pc = "done" => Snapshot \in g_held

---------------------------------------------------------------------------
(* Properties of the cached state, checked under SpecDecode *)

\* C24: the cached battery level is -1 or within 0..100, the cached volume is
\* -1 or within 0..30.
C24_CacheInRange ==
    /\ cache.battery_level \in {-1} \cup 0..100
    /\ cache.volume_level \in {-1} \cup 0..30

---------------------------------------------------------------------------
(* Properties of the command builders, checked under SpecBuild *)

\* C25: in the payload build_anc_command_xm6 builds, the level byte is within
\* 0..20, the noise-cancelling and ambient flags are 0 or 1 and never both 1,
\* the enable byte is 1 exactly when one of them is 1, and for mode off all
\* three are 0 whatever the level and the focus flag given.
C25_AncPayloadWellFormed ==
    t_case = "build" =>
        LET enable == t_buf[4]
            asm == t_buf[5]
            nc == t_buf[6]
            level == t_buf[7]
        IN  /\ Len(t_buf) = 9
            /\ level \in 0..20
            /\ {enable, asm, nc} \subseteq {0, 1}
            /\ ~(asm = 1 /\ nc = 1)
            /\ (enable = 1) = (asm = 1 \/ nc = 1)
            /\ t_in.mode = AncMode_OFF => (enable = 0 /\ asm = 0 /\ nc = 0)
            /\ t_in.mode = AncMode_NOISE_CANCELLING => (nc = 1 /\ asm = 0)
            /\ t_in.mode = AncMode_AMBIENT_SOUND => (asm = 1 /\ nc = 0)

C25_Witness ==
    /\ t_case = "build"
    /\ t_in.mode = AncMode_AMBIENT_SOUND
    /\ t_in.asm_level = 255
    /\ t_in.focus_voice
    /\ t_buf = <<104, 25, 1, 1, 1, 0, 20, 1, 0>>

---------------------------------------------------------------------------
(* Properties of send_command's payload, checked under SpecAnyPayload *)

\* C26: whatever the payload, send_command ends by returning a message or
\* none, never by raising an error.
C26_NoErrorEscapes ==
    ret.kind \in {"none", "message", "timeout", "not_connected", "write_failed"}

---------------------------------------------------------------------------
(* Properties of the sequence number and of inbound ACK frames, checked      *)
(* under SpecAck                                                             *)

\* the ACK frames a data callback handled, in order
AckEvents(evs) == SelectSeq(evs, LAMBDA e : e.ev = "seq")

\* the sequence number of the last of them, d when there is none
LastAckSeq(evs, d) ==
    IF AckEvents(evs) = <<>> THEN d
    ELSE AckEvents(evs)[Len(AckEvents(evs))].msg.seq

\* connect sees the channel open
Opens == pc = "open_wait" /\ pc' = "drain"

\* C27: no step of send_command changes the sequence number; a data callback
\* leaves it at the seq of the last ACK frame it handled, unchanged when it
\* handled none; connect sets it to 0 when it sees the channel open; nothing
\* else changes it; and a data frame send_command writes carries the sequence
\* number of that moment.
C27_SeqFollowsAck ==
    /\ [][last_op' = "send_command" => seq_number' = seq_number]_vars
    /\ [][last_op' = "data" => seq_number' = LastAckSeq(events', seq_number)]_vars
    /\ [][Opens => seq_number' = 0]_vars
    /\ [][seq_number' # seq_number => (last_op' = "data" \/ Opens)]_vars
    /\ [][(BeginsSend /\ tx' # <<>>) =>
            tx' = <<pack(DataType_DATA_MDR, seq_number, g_payload')>>]_vars

C27_Witness ==
    /\ last_op = "send_command"
    /\ pc = "send_wait"
    /\ call.caller = "main"
    /\ seq_number = 2
    /\ tx = <<pack(DataType_DATA_MDR, 2, call.payload)>>

\* C28: the sequence number is 0 or 1, and so is the sequence of every data
\* frame written.
C28_SeqIsBit ==
    /\ seq_number \in {0, 1}
    /\ (last_op = "send_command" /\ tx # <<>>) => unpack(tx[1]).seq \in {0, 1}

\* the last data callback handled ACK frames and nothing else
OnlyAcksHandled ==
    /\ last_op = "data"
    /\ AckEvents(events) # <<>>
    /\ \A i \in 1..Len(events) : events[i].msg.data_type = DataType_ACK

\* C29: no ACK frame is in the pending responses or among the messages
\* received for a call, none is returned by send_command, and a data callback
\* that handled ACK frames only leaves the pending responses and the cached
\* state as they were.
C29_AckNotSurfaced ==
    /\ [][\A i \in 1..Len(pending_responses') :
            pending_responses'[i].data_type # DataType_ACK]_vars
    /\ [][\A i \in 1..Len(g_arrived') : g_arrived'[i].data_type # DataType_ACK]_vars
    /\ [][ret'.msg # None => ret'.msg.data_type # DataType_ACK]_vars
    /\ [][OnlyAcksHandled' => UNCHANGED <<cache, pending_responses>>]_vars

C29_Witness ==
    /\ OnlyAcksHandled
    /\ pc = "send_wait"
    /\ call.payload = <<34, 0>>
    /\ \E i \in 1..Len(events) : matches(events[i].msg, call.expected)
    /\ pending_responses = <<>>
    /\ cache = InitCache

\* C30: a data callback writes one ACK frame for each non-ACK message it
\* extracts while the channel is set, and none for an ACK frame.
C30_AckOnlyForData ==
    last_op = "data" =>
        /\ Len(tx) = Len(SelectSeq(events, LAMBDA e : e.ev = "queue"))
        /\ \A i \in 1..Len(events) :
             events[i].ev = "write" => events[i].msg.data_type # DataType_ACK

---------------------------------------------------------------------------
(* Properties of the cached state, checked under SpecLife *)

\* the last data callback decoded a message
Decoded == last_op = "data" /\ \E i \in 1..Len(events) : events[i].ev = "decode"

\* C31: the cached state changes only in a data callback that decodes a
\* message; no step of connect, disconnect or send_command and no closure or
\* open callback changes it.
C31_CacheOnlyDecoded ==
    /\ [][cache' # cache => Decoded']_vars
    /\ [][last_op' \in {"connect", "disconnect", "send_command", "closed", "opened"}
            => cache' = cache]_vars

C31_Witness ==
    /\ n_connects = 2
    /\ last_op = "connect"
    /\ pc = "open_wait"
    /\ link = "opening"
    /\ ~connected
    /\ cache.battery_level = 50
    /\ cache # InitCache

---------------------------------------------------------------------------
(* Properties of the receive buffer, checked under SpecChunks *)

\* the stream given to the session in one call
Whole == receive_loop([buf |-> t_in.stream, seq_number |-> 0, channel |-> TRUE,
                       tx |-> <<>>, events |-> <<>>, cache |-> InitCache,
                       pending |-> <<>>, arrived |-> <<>>])

\* C32: when all the pieces of a stream have been received, what was done
\* with each message, in order, and the ACK frames written, in order, are those
\* of the stream received in one call; so are the sequence number, the cached
\* state, the pending responses and the receive buffer left.
C32_SplitIndependent ==
    t_pc = "done" =>
        /\ t_rem = Whole.events
        /\ t_buf = Whole.tx
        /\ seq_number = Whole.seq_number
        /\ cache = Whole.cache
        /\ pending_responses = Whole.pending
        /\ recv_buffer = Whole.buf

C32_Witness ==
    /\ t_pc = "done"
    /\ t_in.stream = ResyncStream
    /\ t_in.cuts = <<1, 6>>
    /\ Len(t_buf) = 1
    /\ cache.battery_level = 77
    /\ Len(pending_responses) = 1

\* a buffer that holds no complete frame candidate
NoFrameCandidate(b) ==
    LET start == find(b, START_MARKER, 1)
    IN  \/ start = 0
        \/ start = 1 /\ find(b, END_MARKER, 2) = 0

\* C33: after every _on_data_received call the receive buffer holds no
\* complete frame candidate: it contains no start marker at all, or it begins
\* with a start marker and contains no end marker after it.
C33_NoCandidateLeft ==
    last_op = "data" => NoFrameCandidate(recv_buffer)

\* the first piece ended in bytes with an end marker and no start marker, which
\* stayed buffered; the second brought the head of a frame, which alone is kept
C33_Witness ==
    /\ last_op = "data"
    /\ t_in.stream = DeviceAck \o <<0, 60>> \o BatteryRet2
    /\ t_in.cuts = <<11, 15>>
    /\ n_data = 2
    /\ recv_buffer # <<>>
    /\ recv_buffer[1] = START_MARKER
    /\ Len(recv_buffer) = 4
    /\ find(recv_buffer, END_MARKER, 2) = 0

---------------------------------------------------------------------------
(* Properties of pack's output, checked under SpecPack *)

\* C34: for every data_type, seq and payload, the bytes produced by pack hold
\* the start marker only at the first index and the end marker only at the
\* last one, so the first end marker after the frame's start marker is the
\* frame's own terminator.
C34_MarkersOnlyAtEnds ==
    (t_case = "pack" /\ t_pc = "done") =>
        /\ Len(t_buf) >= 2
        /\ \A i \in 1..Len(t_buf) :
              /\ t_buf[i] = START_MARKER <=> i = 1
              /\ t_buf[i] = END_MARKER <=> i = Len(t_buf)
        /\ \E end \in 2..Len(t_buf) :
              /\ t_buf[end] = END_MARKER
              /\ \A i \in 2..(end - 1) : t_buf[i] # END_MARKER
              /\ end = Len(t_buf)

\* a frame whose data type, seq, length byte and payload bytes are all reserved
\* bytes, each of them sent as an escape pair
C34_Witness ==
    /\ t_case = "pack"
    /\ t_pc = "done"
    /\ t_in.data_type = START_MARKER
    /\ t_in.seq = ESCAPE_BYTE
    /\ Len(t_in.payload) = 60
    /\ t_in.payload[1] = START_MARKER
    /\ SubSeq(t_buf, 1, 10) = <<62, 61, 46, 61, 45, 0, 0, 0, 61, 44>>
    /\ Len(t_buf) = 132

---------------------------------------------------------------------------
(* Properties of connect's result, checked under SpecLife *)

\* C35 as stated: whenever connect returns success the session is connected at
\* that moment, the connected flag true and the channel present, whatever
\* transport callbacks were delivered during the drain and the handshake.
C35_SuccessMeansConnected ==
    (last_op = "connect" /\ pc = "idle" /\ connect_ret = "true") =>
        /\ connected
        /\ channel
====
